---- MODULE Spec2Model ----
(***************************************************************************)
(* Model of helpers/geminiHelper.py: the content packer                    *)
(* (_prepare_content_for_extraction) and the extraction orchestrator       *)
(* (extract_business_data, get_gemini_client, BusinessData).               *)
(*                                                                         *)
(* Python strings are represented exactly, in run-length form: a string is *)
(* a sequence of runs [ch |-> c, n |-> k] (k >= 1 copies of character c),  *)
(* adjacent runs holding different characters.  Two strings are equal iff  *)
(* their run sequences are equal, so len(), slicing, concatenation and     *)
(* strip() are computed on the real 50,000 / 500,000 character limits.     *)
(***************************************************************************)
EXTENDS Integers, Sequences, FiniteSets, TLC

VARIABLES
    pages_data,       \* packer: the argument of _prepare_content_for_extraction
    formatted_pages,  \* packer: the list of accepted page_text strings
    total_chars,      \* packer: the running total of emitted characters
    packed,           \* packer: the returned string
    pack_pc,          \* packer: "off" | "ready" | "done"
    api_key,          \* settings.gemini_api_key ("" when the variable is unset)
    pc,               \* per call: "idle" | "awaiting" | "returned" | "raised"
    arg_pages,        \* per call: the pages_data argument
    arg_client,       \* per call: the client argument (None or a client)
    sent,             \* per call: the contents of the requests issued, in order
    outcome,          \* per call: what the service answered (NoOutcome until it does)
    result,           \* per call: the object returned to the caller (NoResult before)
    raised,           \* per call: the exception propagated to the caller (None if none)
    logged,           \* per call: number of logger.error records written
    next_id           \* identity of the next object the interpreter allocates

pack_vars == <<pages_data, formatted_pages, total_chars, packed, pack_pc>>
vars == <<pages_data, formatted_pages, total_chars, packed, pack_pc,
          api_key, pc, arg_pages, arg_client, sent, outcome, result, raised, logged, next_id>>

None == "None"

\* a call the service has not answered
NoOutcome == [kind |-> "none"]

\* a call that has returned nothing: None, which is no object of the heap
NoResult == [id |-> 0, val |-> [none |-> TRUE]]

----------------------------------------------------------------------------
(* Bounds of the model *)

\* longest page sequence handed to the packer
MaxPages == 3
\* number of concurrent extract_business_data invocations
NumCalls == 2
\* longest page sequence handed to one extract_business_data invocation
MaxCallPages == 1

----------------------------------------------------------------------------
(* Python str *)

EmptyStr == <<>>

Rep(c, k) == IF k = 0 THEN <<>> ELSE <<[ch |-> c, n |-> k]>>

\* a + b
Cat(a, b) ==
    IF a = <<>> THEN b
    ELSE IF b = <<>> THEN a
    ELSE IF a[Len(a)].ch = b[1].ch
         THEN SubSeq(a, 1, Len(a) - 1)
              \o <<[ch |-> b[1].ch, n |-> a[Len(a)].n + b[1].n]>>
              \o Tail(b)
         ELSE a \o b

RECURSIVE Lit(_)
\* the string whose characters are the elements of chars
Lit(chars) ==
    IF chars = <<>> THEN <<>>
    ELSE Cat(Rep(chars[1], 1), Lit(Tail(chars)))

RECURSIVE StrLen(_)
\* len(s)
StrLen(s) == IF s = <<>> THEN 0 ELSE s[1].n + StrLen(Tail(s))

RECURSIVE Take(_, _)
\* s[:k]
Take(s, k) ==
    IF k <= 0 \/ s = <<>> THEN <<>>
    ELSE IF s[1].n >= k THEN <<[ch |-> s[1].ch, n |-> k]>>
    ELSE <<s[1]>> \o Take(Tail(s), k - s[1].n)

\* characters str.strip() removes (those of the modelled alphabet)
Whitespace == {" ", "\t", "\n", "\r", "\f"}

\* s.strip()
RECURSIVE LStrip(_)
LStrip(s) ==
    IF s = <<>> THEN <<>>
    ELSE IF s[1].ch \in Whitespace THEN LStrip(Tail(s)) ELSE s

RECURSIVE RStrip(_)
RStrip(s) ==
    IF s = <<>> THEN <<>>
    ELSE IF s[Len(s)].ch \in Whitespace THEN RStrip(SubSeq(s, 1, Len(s) - 1)) ELSE s

Strip(s) == RStrip(LStrip(s))

RECURSIVE Join(_)
\* "".join(parts)
Join(parts) == IF parts = <<>> THEN EmptyStr ELSE Cat(parts[1], Join(Tail(parts)))

\* page.get(key, default) on a dict modelled as a function
Get(page, key, default) == IF key \in DOMAIN page THEN page[key] ELSE default

----------------------------------------------------------------------------
(* _prepare_content_for_extraction *)

max_chars_per_page == 50000
max_total_chars == 500000

UnknownURL == Lit(<<"U","n","k","n","o","w","n"," ","U","R","L">>)
TruncationMarker ==
    Lit(<<"\n",".",".",".","[","c","o","n","t","e","n","t"," ",
          "t","r","u","n","c","a","t","e","d","]">>)
PageHead == Lit(<<"-","-","-"," ","P","A","G","E",":"," ">>)
PageMid  == Lit(<<" ","-","-","-","\n">>)
PageEnd  == Lit(<<"\n","\n">>)

SkipPageNoStrip(content) == content = EmptyStr

\* "if not content.strip(): continue"
SkipPage(content) == Strip(content) = EmptyStr

TruncateContentShort(content) ==
    IF StrLen(content) > max_chars_per_page
    THEN Cat(Take(content, max_chars_per_page - 1), TruncationMarker)
    ELSE content

\* "if len(content) > max_chars_per_page: content = content[:max] + marker"
TruncateContent(content) ==
    IF StrLen(content) > max_chars_per_page
    THEN Cat(Take(content, max_chars_per_page), TruncationMarker)
    ELSE content

\* f"--- PAGE: {url} ---\n{content}\n\n"
PageText(url, content) ==
    Cat(PageHead, Cat(url, Cat(PageMid, Cat(content, PageEnd))))

ExceedsTotalAfter(total, page_text) == total > max_total_chars

ExceedsTotalStrict(total, page_text) == total + StrLen(page_text) >= max_total_chars

\* "if total_chars + len(page_text) > max_total_chars"
ExceedsTotal(total, page_text) == total + StrLen(page_text) > max_total_chars

RECURSIVE PackLoop(_, _, _, _)

OnLimitContinue(pages, k, formatted, total) == PackLoop(pages, k + 1, formatted, total)

\* "break": the loop ends with what has been accepted so far
OnLimit(pages, k, formatted, total) ==
    [formatted_pages |-> formatted, total_chars |-> total]

\* the for loop, from its k-th iteration on
PackLoop(pages, k, formatted, total) ==
    IF k > Len(pages)
    THEN [formatted_pages |-> formatted, total_chars |-> total]
    ELSE LET page    == pages[k]
             url     == Get(page, "url", UnknownURL)
             content == Get(page, "content", EmptyStr)
         IN  IF SkipPage(content)
             THEN PackLoop(pages, k + 1, formatted, total)
             ELSE LET page_text == PageText(url, TruncateContent(content))
                  IN  IF ExceedsTotal(total, page_text)
                      THEN OnLimit(pages, k, formatted, total)
                      ELSE PackLoop(pages, k + 1, Append(formatted, page_text),
                                    total + StrLen(page_text))

\* the locals at the return statement
PackState(pages) == PackLoop(pages, 1, <<>>, 0)

\* _prepare_content_for_extraction(pages_data)
PrepareContent(pages) == Join(PackState(pages).formatted_pages)

----------------------------------------------------------------------------
(* Inputs of the packer *)

UrlA    == Lit(<<"a">>)
UrlB    == Lit(<<"b">>)
UrlLong == Rep("u", 200000)
\* with a truncated page: 17 + 449960 + 50023 = 500000 characters exactly
UrlFill == Rep("u", 449960)
UrlOver == Rep("u", 449961)

TextA     == Lit(<<"a">>)
TextPad   == Lit(<<" ","a","\n">>)
TextBlank == Lit(<<" ","\n","\t">>)
TextFull  == Rep("x", 50000)
TextOver  == Cat(Rep("x", 50000), Rep("y", 1))
TextOverB == Cat(Rep("x", 49999), Rep("z", 2))

Page(u, c) == [url |-> u, content |-> c]

Pages ==
    { Page(u, c) : u \in {UrlA, UrlLong}, c \in {EmptyStr, TextBlank, TextA, TextFull, TextOver} }
    \cup { [content |-> TextA], [content |-> TextBlank], [url |-> UrlA],
           Page(UrlB, TextPad), Page(UrlB, TextOverB),
           Page(UrlFill, TextOver), Page(UrlOver, TextOver) }

SeqsUpTo(S, k) == UNION { [1..m -> S] : m \in 0..k }


----------------------------------------------------------------------------
(* The packer as a state machine: one call on one input *)

InitCalls ==
    /\ pc = [i \in 1..NumCalls |-> "idle"]
    /\ arg_pages = [i \in 1..NumCalls |-> <<>>]
    /\ arg_client = [i \in 1..NumCalls |-> None]
    /\ sent = [i \in 1..NumCalls |-> <<>>]
    /\ outcome = [i \in 1..NumCalls |-> NoOutcome]
    /\ result = [i \in 1..NumCalls |-> NoResult]
    /\ raised = [i \in 1..NumCalls |-> None]
    /\ logged = [i \in 1..NumCalls |-> 0]
    /\ next_id = 1

InitPack ==
    /\ pages_data \in SeqsUpTo(Pages, MaxPages)
    /\ formatted_pages = <<>>
    /\ total_chars = 0
    /\ packed = None
    /\ pack_pc = "ready"
    /\ api_key = ""
    /\ InitCalls

\* one run of _prepare_content_for_extraction, start to return
PackCall ==
    /\ pack_pc = "ready"
    /\ formatted_pages' = PackState(pages_data).formatted_pages
    /\ total_chars' = PackState(pages_data).total_chars
    /\ packed' = PrepareContent(pages_data)
    /\ pack_pc' = "done"
    /\ UNCHANGED <<pages_data, api_key, pc, arg_pages, arg_client, sent, outcome,
                   result, raised, logged, next_id>>

NextPack == PackCall

SpecPack == InitPack /\ [][NextPack]_vars

----------------------------------------------------------------------------
(* BusinessData and its defaults.  Field values are opaque text to this    *)
(* code and are written as TLA+ strings; lists are sequences.              *)

\* BusinessHours()
BusinessHours ==
    [monday |-> "", tuesday |-> "", wednesday |-> "", thursday |-> "",
     friday |-> "", saturday |-> "", sunday |-> ""]

BusinessDataOpen ==
    [name |-> "", phoneNumber |-> "", address |-> "", city |-> "", state |-> "",
     pincode |-> "", website |-> "", email |-> "", businessHours |-> BusinessHours,
     is_24_7 |-> TRUE, holidayClosures |-> "", professionals |-> <<>>,
     manager |-> "", operationsLead |-> "", servicesOffered |-> <<>>,
     servicesNotOffered |-> "", specialties |-> <<>>]

\* BusinessData(): every field at its declared default
BusinessData ==
    [name |-> "", phoneNumber |-> "", address |-> "", city |-> "", state |-> "",
     pincode |-> "", website |-> "", email |-> "", businessHours |-> BusinessHours,
     is_24_7 |-> FALSE, holidayClosures |-> "", professionals |-> <<>>,
     manager |-> "", operationsLead |-> "", servicesOffered |-> <<>>,
     servicesNotOffered |-> "", specialties |-> <<>>]

\* Professional(name, role): is_available defaults to True
Professional(name, role) == [name |-> name, role |-> role, is_available |-> TRUE]

----------------------------------------------------------------------------
(* The external service and the caller's inputs *)

\* values of response.parsed: records conforming to the BusinessData schema
ParsedRecords ==
    { BusinessData,
      [BusinessData EXCEPT !.name = "Acme", !.phoneNumber = "(555) 111-2222",
                           !.businessHours.monday = "9-5",
                           !.professionals = <<Professional("Ann", "Owner")>>,
                           !.servicesOffered = <<"Repair">>] }

\* exceptions generate_content can raise (all subclasses of Exception)
Exceptions == {"ConnectionError", "ValidationError"}

Clients == {None, "Client"}

CallPages == { [url |-> UrlA], Page(UrlB, TextA) }

\* _build_extraction_prompt(): a fixed text, written as one token
BuildExtractionPrompt == Lit(<<"<prompt>">>)

\* get_gemini_client(): the client, or the ValueError it raises
GetGeminiClient ==
    IF api_key = "" THEN [raises |-> "ValueError"] ELSE [client |-> "Client"]

----------------------------------------------------------------------------
(* extract_business_data *)

SharedBusinessData(id) == [id |-> 0, val |-> BusinessData]

\* "return BusinessData()": a new instance, allocated at identity id
FreshBusinessData(id) == [id |-> id, val |-> BusinessData]

InvokeShortCircuit(i, pages, client, combined_content) ==
    IF combined_content = EmptyStr
    THEN /\ pc' = [pc EXCEPT ![i] = "returned"]
         /\ arg_pages' = [arg_pages EXCEPT ![i] = pages]
         /\ arg_client' = [arg_client EXCEPT ![i] = client]
         /\ outcome' = [outcome EXCEPT ![i] = [kind |-> "skipped"]]
         /\ result' = [result EXCEPT ![i] = FreshBusinessData(next_id)]
         /\ next_id' = next_id + 1
         /\ UNCHANGED <<sent, raised, logged>>
    ELSE /\ pc' = [pc EXCEPT ![i] = "awaiting"]
         /\ arg_pages' = [arg_pages EXCEPT ![i] = pages]
         /\ arg_client' = [arg_client EXCEPT ![i] = client]
         /\ sent' = [sent EXCEPT ![i] =
                Append(@, Cat(BuildExtractionPrompt, Cat(PageEnd, combined_content)))]
         /\ UNCHANGED <<outcome, result, raised, logged, next_id>>

\* the try block up to its await: one generate_content request is issued with
\* contents f"{prompt}\n\n{combined_content}", and the coroutine suspends
Invoke(i, pages, client, combined_content) ==
    /\ pc' = [pc EXCEPT ![i] = "awaiting"]
    /\ arg_pages' = [arg_pages EXCEPT ![i] = pages]
    /\ arg_client' = [arg_client EXCEPT ![i] = client]
    /\ sent' = [sent EXCEPT ![i] =
           Append(@, Cat(BuildExtractionPrompt, Cat(PageEnd, combined_content)))]
    /\ UNCHANGED <<outcome, result, raised, logged, next_id>>

\* extract_business_data(pages, client) from its entry to its first suspension,
\* or to the exception that leaves it
Call(i, pages, client) ==
    /\ pc[i] = "idle"
    /\ IF client = None /\ "raises" \in DOMAIN GetGeminiClient
       THEN /\ pc' = [pc EXCEPT ![i] = "raised"]
            /\ raised' = [raised EXCEPT ![i] = GetGeminiClient.raises]
            /\ arg_pages' = [arg_pages EXCEPT ![i] = pages]
            /\ arg_client' = [arg_client EXCEPT ![i] = client]
            /\ UNCHANGED <<sent, outcome, result, logged, next_id>>
       ELSE Invoke(i, pages, IF client = None THEN GetGeminiClient.client ELSE client,
                   PrepareContent(pages))
    /\ UNCHANGED <<api_key, pack_vars>>

\* the await completes: "return response.parsed"
OnSuccess(i, parsed) ==
    /\ pc[i] = "awaiting"
    /\ outcome' = [outcome EXCEPT ![i] = [kind |-> "ok", parsed |-> parsed]]
    /\ result' = [result EXCEPT ![i] = [id |-> next_id, val |-> parsed]]
    /\ next_id' = next_id + 1
    /\ pc' = [pc EXCEPT ![i] = "returned"]
    /\ UNCHANGED <<api_key, arg_pages, arg_client, sent, raised, logged, pack_vars>>

\* the await raises: "except Exception as e": log, return BusinessData()
OnException(i, e) ==
    /\ pc[i] = "awaiting"
    /\ outcome' = [outcome EXCEPT ![i] = [kind |-> "exception", error |-> e]]
    /\ logged' = [logged EXCEPT ![i] = @ + 1]
    /\ result' = [result EXCEPT ![i] = FreshBusinessData(next_id)]
    /\ next_id' = next_id + 1
    /\ pc' = [pc EXCEPT ![i] = "returned"]
    /\ UNCHANGED <<api_key, arg_pages, arg_client, sent, raised, pack_vars>>

Init ==
    /\ pages_data = <<>>
    /\ formatted_pages = <<>>
    /\ total_chars = 0
    /\ packed = None
    /\ pack_pc = "off"
    /\ api_key \in {"", "key"}
    /\ InitCalls

Next ==
    \/ \E i \in 1..NumCalls, pages \in SeqsUpTo(CallPages, MaxCallPages), client \in Clients :
          Call(i, pages, client)
    \/ \E i \in 1..NumCalls, parsed \in ParsedRecords : OnSuccess(i, parsed)
    \/ \E i \in 1..NumCalls, e \in Exceptions : OnException(i, e)

Spec == Init /\ [][Next]_vars


----------------------------------------------------------------------------
(* Vocabulary of the properties, stated without the packer's loop *)

\* a content is blank when it has no character outside the whitespace set
BlankContent(c) == \A k \in 1..Len(c) : c[k].ch \in Whitespace

ContentOf(p) == IF "content" \in DOMAIN p THEN p.content ELSE EmptyStr
UrlOf(p) == IF "url" \in DOMAIN p THEN p.url ELSE UnknownURL

NonBlank(pages) == SelectSeq(pages, LAMBDA p : ~BlankContent(ContentOf(p)))

\* the content part of a page's excerpt
Body(p) ==
    IF StrLen(ContentOf(p)) <= max_chars_per_page
    THEN ContentOf(p)
    ELSE Cat(Take(ContentOf(p), max_chars_per_page), TruncationMarker)

\* the framed excerpt of a page
Excerpt(p) == Cat(Cat(Cat(Cat(PageHead, UrlOf(p)), PageMid), Body(p)), PageEnd)

\* characters of framing around a page's content
Framing(p) == StrLen(PageHead) + StrLen(UrlOf(p)) + StrLen(PageMid) + StrLen(PageEnd)

RECURSIVE FramedSize(_, _)
\* total length of the excerpts of the first k pages of nb
FramedSize(nb, k) == IF k = 0 THEN 0 ELSE FramedSize(nb, k - 1) + StrLen(Excerpt(nb[k]))

\* number of leading pages of nb whose excerpts fit the budget together
Fitting(nb) ==
    CHOOSE k \in 0..Len(nb) :
        /\ FramedSize(nb, k) <= max_total_chars
        /\ k < Len(nb) => FramedSize(nb, k + 1) > max_total_chars

Excerpts(nb, k) == [j \in 1..k |-> Excerpt(nb[j])]

PackDone == pack_pc = "done"

----------------------------------------------------------------------------
(* Properties of the packer (SpecPack) *)

\* C4: when the framed excerpts of the pages together exceed the budget, the
\* output is no longer than the budget plus the framing of the page at the
\* cutoff, and the cutoff page and every page after it contribute nothing
C4_PackingBudget ==
    PackDone =>
        LET nb == NonBlank(pages_data)
            m  == Fitting(nb)
        IN  FramedSize(nb, Len(nb)) > max_total_chars =>
                /\ StrLen(packed) <= max_total_chars + Framing(nb[m + 1])
                /\ Len(formatted_pages) = m
                /\ StrLen(packed) = FramedSize(nb, m)
                /\ total_chars = FramedSize(nb, m)

C4_Witness ==
    /\ PackDone
    /\ LET nb == NonBlank(pages_data)
       IN  /\ FramedSize(nb, Len(nb)) > max_total_chars
           /\ Fitting(nb) >= 1
           /\ Fitting(nb) + 1 < Len(nb)
           /\ StrLen(packed) > 0

\* C5 (as claimed): whenever some page is non-blank, the excerpt of the first
\* non-blank page is in the output, whatever its size
C5_FirstPageAlwaysIncluded ==
    PackDone =>
        LET nb == NonBlank(pages_data)
        IN  nb # <<>> =>
                /\ formatted_pages # <<>>
                /\ formatted_pages[1] = Excerpt(nb[1])
                /\ Take(packed, StrLen(Excerpt(nb[1]))) = Excerpt(nb[1])

\* C5 (amended): the excerpt of the first non-blank page opens the output
\* exactly when it is no longer than the total budget; a first excerpt longer
\* than the budget is rejected like any other and the output is ""
C5_FirstPageIncludedIfFits ==
    PackDone =>
        LET nb == NonBlank(pages_data)
        IN  nb # <<>> =>
                IF StrLen(Excerpt(nb[1])) <= max_total_chars
                THEN /\ formatted_pages # <<>>
                     /\ formatted_pages[1] = Excerpt(nb[1])
                     /\ Take(packed, StrLen(Excerpt(nb[1]))) = Excerpt(nb[1])
                ELSE packed = EmptyStr

C5_Witness ==
    /\ PackDone
    /\ LET nb == NonBlank(pages_data)
       IN  /\ nb # <<>>
           /\ StrLen(Excerpt(nb[1])) = max_total_chars
           /\ packed = Excerpt(nb[1])

\* C6: every accepted page whose content is longer than the per-page limit
\* appears as its first max_chars_per_page characters followed by the
\* truncation marker; every other accepted page appears with its content as is
C6_PerPageTruncation ==
    PackDone =>
        LET nb == NonBlank(pages_data)
        IN  /\ Len(formatted_pages) <= Len(nb)
            /\ \A k \in 1..Len(formatted_pages) :
                  LET c == ContentOf(nb[k])
                      frame(b) == Cat(Cat(Cat(Cat(PageHead, UrlOf(nb[k])), PageMid), b), PageEnd)
                  IN  IF StrLen(c) > max_chars_per_page
                      THEN /\ formatted_pages[k] =
                                frame(Cat(Take(c, max_chars_per_page), TruncationMarker))
                           /\ StrLen(formatted_pages[k]) =
                                Framing(nb[k]) + max_chars_per_page + StrLen(TruncationMarker)
                      ELSE /\ formatted_pages[k] = frame(c)
                           /\ StrLen(formatted_pages[k]) = Framing(nb[k]) + StrLen(c)

C6_Witness ==
    /\ PackDone
    /\ \E k \in 1..Len(formatted_pages) :
          /\ StrLen(ContentOf(NonBlank(pages_data)[k])) > max_chars_per_page
          /\ ContentOf(NonBlank(pages_data)[k])[Len(ContentOf(NonBlank(pages_data)[k]))].ch
                \notin {formatted_pages[k][j].ch : j \in 1..Len(formatted_pages[k])}
    /\ \E k \in 1..Len(formatted_pages) :
          StrLen(ContentOf(NonBlank(pages_data)[k])) = max_chars_per_page

\* C7: blank pages contribute nothing and leave the running total alone:
\* packing the input with its blank pages removed gives the same output and
\* the same total, and an input without a non-blank page gives ""
C7_BlankPagesSkipped ==
    PackDone =>
        /\ packed = PrepareContent(NonBlank(pages_data))
        /\ total_chars = PackState(NonBlank(pages_data)).total_chars
        /\ formatted_pages = PackState(NonBlank(pages_data)).formatted_pages
        /\ NonBlank(pages_data) = <<>> => packed = EmptyStr /\ total_chars = 0

C7_Witness ==
    /\ PackDone
    /\ Len(pages_data) = 3
    /\ BlankContent(ContentOf(pages_data[2]))
    /\ ContentOf(pages_data[2]) # EmptyStr
    /\ Len(NonBlank(pages_data)) = 2
    /\ Len(formatted_pages) = 2

\* C8: the output is the concatenation, in input order, of the excerpts of
\* the longest prefix of the non-blank pages that fits the budget; nothing
\* after the first rejected page is emitted, even a page that would fit
C8_PrefixInOrder ==
    PackDone =>
        LET nb == NonBlank(pages_data)
            m  == Fitting(nb)
        IN  /\ formatted_pages = Excerpts(nb, m)
            /\ packed = Join(Excerpts(nb, m))

C8_Witness ==
    /\ PackDone
    /\ LET nb == NonBlank(pages_data)
           m  == Fitting(nb)
       IN  /\ m >= 1
           /\ m + 2 <= Len(nb)
           /\ FramedSize(nb, m) + StrLen(Excerpt(nb[m + 2])) <= max_total_chars
           /\ formatted_pages = Excerpts(nb, m)


----------------------------------------------------------------------------
(* Properties of extract_business_data (Spec) *)

StringFields ==
    {"name", "phoneNumber", "address", "city", "state", "pincode", "website",
     "email", "holidayClosures", "manager", "operationsLead", "servicesNotOffered"}
ListFields == {"professionals", "servicesOffered", "specialties"}
Days == {"monday", "tuesday", "wednesday", "thursday", "friday", "saturday", "sunday"}

\* the record shape: every field present, each of its declared type
WellFormed(r) ==
    /\ DOMAIN r = StringFields \cup ListFields \cup {"businessHours", "is_24_7"}
    /\ \A f \in StringFields : r[f] \in STRING
    /\ DOMAIN r.businessHours = Days
    /\ \A d \in Days : r.businessHours[d] \in STRING
    /\ r.is_24_7 \in BOOLEAN
    /\ \A k \in 1..Len(r.professionals) :
          /\ DOMAIN r.professionals[k] = {"name", "role", "is_available"}
          /\ r.professionals[k].name \in STRING
          /\ r.professionals[k].role \in STRING
          /\ r.professionals[k].is_available \in BOOLEAN
    /\ \A k \in 1..Len(r.servicesOffered) : r.servicesOffered[k] \in STRING
    /\ \A k \in 1..Len(r.specialties) : r.specialties[k] \in STRING

\* the all-default record, field by field
AllDefault(r) ==
    /\ DOMAIN r = StringFields \cup ListFields \cup {"businessHours", "is_24_7"}
    /\ \A f \in StringFields : r[f] = ""
    /\ \A f \in ListFields : r[f] = <<>>
    /\ r.is_24_7 = FALSE
    /\ DOMAIN r.businessHours = Days
    /\ \A d \in Days : r.businessHours[d] = ""

Failed(i) == pc[i] = "returned" /\ outcome[i].kind = "exception"
Succeeded(i) == pc[i] = "returned" /\ outcome[i].kind = "ok"

\* C1: no invocation leaves extract_business_data by an exception, and every
\* invocation that has ended returned a well-formed Business Record
C1_Totality ==
    \A i \in 1..NumCalls :
        /\ pc[i] # "raised"
        /\ pc[i] = "returned" => result[i] # NoResult /\ WellFormed(result[i].val)

\* C2: a call whose generation request raised returns the all-default record,
\* and any two such calls return equal records whatever their pages
C2_DefaultOnFailure ==
    \A i \in 1..NumCalls :
        Failed(i) =>
            /\ AllDefault(result[i].val)
            /\ \A j \in 1..NumCalls : Failed(j) => result[j].val = result[i].val

C2_Witness ==
    \E i, j \in 1..NumCalls :
        /\ i # j
        /\ Failed(i) /\ Failed(j)
        /\ arg_pages[i] # arg_pages[j]
        /\ sent[i] # sent[j]
        /\ outcome[i].error # outcome[j].error
        /\ AllDefault(result[i].val) /\ AllDefault(result[j].val)

\* C3: extract_business_data never raises the configuration error (it is
\* raised when the client is constructed, before any extraction), and every
\* error of the generation request ends in the default record
C3_ConfigErrorNotDuringExtract ==
    \A i \in 1..NumCalls :
        /\ raised[i] # "ValueError"
        /\ Failed(i) => raised[i] = None /\ AllDefault(result[i].val)

\* C9: concurrent calls do not interfere: the request of a call carries the
\* packing of its own pages, the record it returns is decided by its own
\* service outcome alone, and no two calls return the same object
C9_NoInterference ==
    \A i \in 1..NumCalls :
        /\ pc[i] \in {"awaiting", "returned"} =>
              sent[i] = <<Cat(BuildExtractionPrompt,
                              Cat(PageEnd, Join(Excerpts(NonBlank(arg_pages[i]),
                                                         Len(NonBlank(arg_pages[i]))))))>>
        /\ Succeeded(i) => result[i].val = outcome[i].parsed
        /\ Failed(i) => AllDefault(result[i].val)
        /\ \A j \in 1..NumCalls :
              (i # j /\ pc[i] = "returned" /\ pc[j] = "returned") =>
                  result[i].id # result[j].id

C9_Witness ==
    \E i, j \in 1..NumCalls :
        /\ i # j
        /\ Failed(i)
        /\ Succeeded(j)
        /\ result[i].id < result[j].id
        /\ ~AllDefault(result[j].val)
        /\ NonBlank(arg_pages[j]) # <<>>
        /\ NonBlank(arg_pages[i]) = <<>>

\* C10: a call that has reached its generation request has issued exactly one
\* request, also when the packed context is "" and also after the request
\* failed; a call that raised before that step has issued none
C10_ExactlyOneRequest ==
    \A i \in 1..NumCalls :
        /\ pc[i] \in {"awaiting", "returned"} => Len(sent[i]) = 1
        /\ pc[i] \in {"idle", "raised"} => Len(sent[i]) = 0
        /\ logged[i] = (IF Failed(i) THEN 1 ELSE 0)

C10_Witness ==
    \E i \in 1..NumCalls :
        /\ Failed(i)
        /\ Len(arg_pages[i]) >= 1
        /\ sent[i] = <<Cat(BuildExtractionPrompt, PageEnd)>>

====
